---------------------------- MODULE Spec2Model ----------------------------
(***************************************************************************)
(* Model of ingest_hotel_ontology.py: the hotel-booking ingestion script.  *)
(*                                                                         *)
(* The script is one linear run over a table: load, sanitise children,     *)
(* map the month name, derive total_guests / stay_duration, derive the     *)
(* booking_id, assert its uniqueness, simulate total_cost row by row with  *)
(* a seeded generator, project three frames, audit them for nulls, and     *)
(* export three files.                                                     *)
(*                                                                         *)
(* Conventions.                                                            *)
(*  - A cell is a set holding at most one value; the empty set is pandas'  *)
(*    missing value (NaN).  Arithmetic on cells propagates NaN.            *)
(*  - The table df is column oriented, as in pandas: a function from       *)
(*    column names to sequences of cells.  Row i of the model (1-based)    *)
(*    is the row with index label i-1 (RangeIndex).                        *)
(*  - Money is exact decimal arithmetic: multipliers are hundredths        *)
(*    (0.85 is 85), full_cost and total_cost are cents.  round(x, 2) is    *)
(*    rounding to the nearest cent, ties to even.  Binary floating point   *)
(*    representation error is not modelled.                                *)
(*  - A text is a sequence of one-character strings, so that formatting    *)
(*    and concatenation are computed and can collide.                      *)
(*  - sha256 is not computable here; it is modelled as an injective tag    *)
(*    on the key text.                                                     *)
(***************************************************************************)
EXTENDS Integers, Sequences, FiniteSets, TLC

VARIABLES
    csv,      \* the input file: a sequence of raw rows (line 14, 17)
    stream,   \* the value sequence of the generator seeded with SEED
    df,       \* the DataFrame: column name -> sequence of cells
    pc,       \* position of the script
    rng,      \* {} before line 65; {n} once created, n values consumed
    calls,    \* one record per call of simulate_total_cost, in call order
    frames,   \* the three projections, once built (lines 82-94)
    frame_i,  \* index of the frame the null audit is at (line 102)
    files,    \* output directory: file name -> {} (absent) or {content}
    failure,  \* message of the assertion that aborted the run, or "none"
    run,      \* number of the current process run
    prev      \* what the previous run left: outcome of run-1

vars == <<csv, stream, df, pc, rng, calls, frames, frame_i, files, failure, run, prev>>

---------------------------------------------------------------------------
(* Cells and generic helpers *)

NaN == {}

IsNull(cell) == cell = NaN

Val(cell) == CHOOSE v \in cell : TRUE

\* pandas elementwise + on two numeric columns' cells
Add(a, b) == {x + y : x \in a, y \in b}

Range(s) == {s[i] : i \in DOMAIN s}

Max(a, b) == IF a >= b THEN a ELSE b

NRows(d) == Len(d["hotel"])


---------------------------------------------------------------------------
(* Program constants *)

\* mutant: two entries of the lookup exchanged
MONTH_MAP_swapped ==
    [January |-> 1, February |-> 2, March |-> 3, April |-> 4,
     May |-> 5, June |-> 7, July |-> 6, August |-> 8,
     September |-> 9, October |-> 10, November |-> 11, December |-> 12]

\* line 25-29
MONTH_MAP ==
    [January |-> 1, February |-> 2, March |-> 3, April |-> 4,
     May |-> 5, June |-> 6, July |-> 7, August |-> 8,
     September |-> 9, October |-> 10, November |-> 11, December |-> 12]

\* line 50-53, USD per night
BASE_RATE == ("Resort Hotel" :> 220) @@ ("City Hotel" :> 130)

\* line 68, the fallback of BASE_RATE.get
DEFAULT_RATE == 150

\* line 57-63, in hundredths, keyed on the month number
SEASON_MULT == <<80, 80, 85, 95, 100, 120, 135, 130, 110, 95, 85, 90>>

\* line 69, the fallback of SEASON_MULT.get (1.0), in hundredths
DEFAULT_SEASON == 100

\* line 65
SEED == 42

\* line 71, the bounds of rng.uniform, in hundredths
JITTER_LOW == 85

JITTER_HIGH == 115

\* line 72
MIN_NIGHTS == 1

\* line 76, the cancellation fee 0.20, in hundredths
CANCEL_FEE == 20

\* mutant: the audit list holds the first frame only
FRAMES_core_only == <<"bookings_core">>

\* line 97-101, the order of the null audit
FRAMES == <<"bookings_core", "arrival_metadata", "booking_financials">>

\* mutant: total_guests left out of bookings_core
COLUMNS_no_total_guests ==
    [bookings_core |->
        <<"booking_id", "hotel", "is_canceled", "lead_time", "stay_duration">>,
     arrival_metadata |->
        <<"booking_id", "arrival_date_year", "arrival_date_month",
          "arrival_date_day_of_month", "stays_in_weekend_nights">>,
     booking_financials |->
        <<"booking_id", "hotel", "is_canceled", "stay_duration", "total_cost">>]

\* line 82-94, the literal column lists of the projections
COLUMNS ==
    [bookings_core |->
        <<"booking_id", "hotel", "is_canceled", "lead_time", "total_guests", "stay_duration">>,
     arrival_metadata |->
        <<"booking_id", "arrival_date_year", "arrival_date_month",
          "arrival_date_day_of_month", "stays_in_weekend_nights">>,
     booking_financials |->
        <<"booking_id", "hotel", "is_canceled", "stay_duration", "total_cost">>]

\* line 108-110
FILE_NAMES == {"bookings_core.csv", "arrival_metadata.csv", "booking_financials.csv"}

---------------------------------------------------------------------------
(* Pure functions of the script *)

\* pd.read_csv (line 17): the rows of the file become columns, row order kept
read_csv(rows) ==
    [c \in DOMAIN rows[1] |-> [i \in 1..Len(rows) |-> rows[i][c]]]

\* df[name] = col
SetColumn(d, name, col) == (name :> col) @@ d

\* mutant: the fill is forgotten
fillna_none(cell) == cell

\* .fillna(0).astype(int) on one cell (line 22)
fillna0(cell) == IF IsNull(cell) THEN {0} ELSE cell

\* Series.map(MONTH_MAP) on one cell (line 30): a key that is not in the
\* dict, and a missing value, both give NaN
map_month(cell) ==
    IF IsNull(cell) \/ Val(cell) \notin DOMAIN MONTH_MAP
    THEN NaN
    ELSE {MONTH_MAP[Val(cell)]}

\* str() of a non-negative int
RECURSIVE Digits(_)
Digits(n) ==
    LET d == <<"0", "1", "2", "3", "4", "5", "6", "7", "8", "9">>
    IN  IF n < 10 THEN <<d[n + 1]>> ELSE Digits(n \div 10) \o <<d[(n % 10) + 1]>>

FormatInt(n) == IF n < 0 THEN <<"-">> \o Digits(-n) ELSE Digits(n)

\* read_csv gives an integer column with a missing value the dtype float64
IsFloatColumn(col) == \E i \in DOMAIN col : IsNull(col[i])

\* f"{value}" of one cell of a numeric column: "10", "10.0" or "nan"
FormatCell(col, i) ==
    IF IsNull(col[i]) THEN <<"n", "a", "n">>
    ELSE IF IsFloatColumn(col) THEN FormatInt(Val(col[i])) \o <<".", "0">>
    ELSE FormatInt(Val(col[i]))

\* mutant: the key without the row position, as the comment on line 35 has it
booking_key_unsalted(d, i) ==
    FormatCell(d["lead_time"], i)
        \o <<"|">> \o FormatCell(d["arrival_date_year"], i)
        \o <<"|">> \o FormatCell(d["arrival_date_day_of_month"], i)

\* line 39: the key text of row i (index label i-1)
booking_key(d, i) ==
    FormatInt(i - 1) \o <<"|">> \o FormatCell(d["lead_time"], i)
        \o <<"|">> \o FormatCell(d["arrival_date_year"], i)
        \o <<"|">> \o FormatCell(d["arrival_date_day_of_month"], i)

\* mutant: Python's built-in hash(), salted anew in every process
salted_hash(key) == <<"hash", run, key>>

\* line 40: hashlib.sha256(key.encode()).hexdigest(), taken as injective
sha256_hexdigest(key) == <<"sha256", key>>

\* line 38-40
make_booking_id(d, i) == {sha256_hexdigest(booking_key(d, i))}

\* line 44: df["booking_id"].nunique()
nunique(col) == Cardinality({col[i] : i \in DOMAIN col} \ {NaN})

\* round to the nearest multiple of unit, ties to even; n in units of 1/unit
RoundHalfEven(n, unit) ==
    LET q == n \div unit
        r == n % unit
    IN  IF 2 * r < unit THEN q
        ELSE IF 2 * r > unit THEN q + 1
        ELSE IF q % 2 = 0 THEN q ELSE q + 1

\* line 68: BASE_RATE.get(row["hotel"], 150)
base_rate(hotel) ==
    IF ~IsNull(hotel) /\ Val(hotel) \in DOMAIN BASE_RATE
    THEN BASE_RATE[Val(hotel)] ELSE DEFAULT_RATE

\* line 69: SEASON_MULT.get(row["arrival_date_month"], 1.0)
season_mult(month) ==
    IF ~IsNull(month) /\ Val(month) \in DOMAIN SEASON_MULT
    THEN SEASON_MULT[Val(month)] ELSE DEFAULT_SEASON

\* mutant: the floor is zero nights
billed_nights_floor0(stay) == {Max(s, 0) : s \in stay}

\* mutant: no floor at all
billed_nights_unfloored(stay) == stay

\* line 72: max(row["stay_duration"], 1); max(nan, 1) is nan
billed_nights(stay) == {Max(s, MIN_NIGHTS) : s \in stay}

\* line 73: round(nightly * nights, 2), in cents; nightly is base * season *
\* jitter in 1/10000 USD
full_cost_of(base, season, jitter, nights) ==
    {RoundHalfEven(base * season * jitter * n, 100) : n \in nights}

\* mutant: the fee taken as a 20% discount
final_cost_discount(full_cost, is_canceled) ==
    IF is_canceled = {1}
    THEN {RoundHalfEven(f * (100 - CANCEL_FEE), 100) : f \in full_cost}
    ELSE full_cost

\* line 75-77
final_cost(full_cost, is_canceled) ==
    IF is_canceled = {1}
    THEN {RoundHalfEven(f * CANCEL_FEE, 100) : f \in full_cost}
    ELSE full_cost

\* line 65: a fresh generator has consumed nothing
default_rng(seed) == 0

\* line 71: rng.uniform(0.85, 1.15) with n values consumed so far
uniform_value(n) == stream[n + 1]

\* mutant: the generator is created anew for every call
uniform_advance_stuck(n) == n

uniform_advance(n) == n + 1

\* line 67-77: one call on row i; the locals are kept with the result
simulate_total_cost(d, i, jitter) ==
    LET base   == base_rate(d["hotel"][i])
        season == season_mult(d["arrival_date_month"][i])
        nights == billed_nights(d["stay_duration"][i])
        full   == full_cost_of(base, season, jitter, nights)
    IN  [name |-> i - 1, jitter |-> jitter, nights |-> nights,
         full_cost |-> full, ret |-> final_cost(full, d["is_canceled"][i])]

\* df[[...]].copy() (line 82-94)
project(d, cols) == [c \in Range(cols) |-> d[c]]

\* frame.isnull().sum().sum() (line 103)
null_total(frame) ==
    Cardinality({<<c, i>> \in (DOMAIN frame) \X (1..NRows(df)) : IsNull(frame[c][i])})

\* frame.to_csv(path, index=False) (line 108-110): header, then the rows in
\* order, each the cells in the frame's column order
to_csv(frame, cols) ==
    [header |-> cols,
     rows   |-> [i \in 1..NRows(df) |-> [j \in 1..Len(cols) |-> frame[cols[j]][i]]]]

---------------------------------------------------------------------------
(* Bounds and input tables *)

\* longest table of the missing-cell family
MaxRows == 2

\* length of the tables of the identifier family: index labels 0 .. MaxIdRows-1
MaxIdRows == 12

\* number of process runs over the same input in SpecRerun
MaxRuns == 2

\* a well-formed row
BaseRow ==
    [hotel |-> {"City Hotel"}, is_canceled |-> {0}, lead_time |-> {10},
     arrival_date_year |-> {2017}, arrival_date_month |-> {"July"},
     arrival_date_day_of_month |-> {15},
     stays_in_weekend_nights |-> {1}, stays_in_week_nights |-> {2},
     adults |-> {2}, children |-> {1}, babies |-> {1}]

\* a second well-formed row: cancelled, zero nights, another date
CanceledRow ==
    [hotel |-> {"Resort Hotel"}, is_canceled |-> {1}, lead_time |-> {3},
     arrival_date_year |-> {2016}, arrival_date_month |-> {"December"},
     arrival_date_day_of_month |-> {1},
     stays_in_weekend_nights |-> {0}, stays_in_week_nights |-> {0},
     adults |-> {1}, children |-> {0}, babies |-> {0}]

RAW_COLUMNS == DOMAIN BaseRow

\* the columns the script reads, children apart (line 22 repairs children)
UNREPAIRED_COLUMNS == RAW_COLUMNS \ {"children"}

\* rows of the missing-cell family: the two well-formed rows, BaseRow with
\* one cell missing (any column), BaseRow with a month name the map lacks
MissingCellRows ==
    {BaseRow, CanceledRow, [BaseRow EXCEPT !["arrival_date_month"] = {"Smarch"}]}
        \cup {[BaseRow EXCEPT ![c] = NaN] : c \in RAW_COLUMNS}

\* rows of the cost family: everything simulate_total_cost reads varies
CostRows ==
    {[BaseRow EXCEPT !["hotel"] = h, !["arrival_date_month"] = m,
                     !["is_canceled"] = {k},
                     !["stays_in_weekend_nights"] = {we},
                     !["stays_in_week_nights"] = {wk}] :
        h \in {{"Resort Hotel"}, {"City Hotel"}, {"Hostel"}, NaN},
        m \in {{x} : x \in DOMAIN MONTH_MAP} \cup {{"Smarch"}, NaN},
        k \in {0, 1}, we \in {-1, 0, 2}, wk \in {0, 1}}

\* rows of the identifier family: lead times whose texts are "2" and "12"
IdRows == {[BaseRow EXCEPT !["lead_time"] = {l}] : l \in {2, 12}}

Tables(rows, maxlen) == UNION {[1..n -> rows] : n \in 1..maxlen}

NoFrames == [n \in {} |-> NaN]

NoFiles == [f \in FILE_NAMES |-> NaN]

NoOutcome == [pc |-> "none", failure |-> "none", booking_id |-> <<>>,
              total_cost |-> <<>>, files |-> NoFiles]

\* the state of a process after line 17 on the input table
Loaded(rows) ==
    /\ df = read_csv(rows)
    /\ pc = "sanitize"
    /\ rng = NaN
    /\ calls = <<>>
    /\ frames = NoFrames
    /\ frame_i = 0
    /\ failure = "none"

InitWith(tables, jitters) ==
    /\ csv \in tables
    /\ stream \in [1..Len(csv) -> jitters]
    /\ Loaded(csv)
    /\ files = NoFiles
    /\ run = 1
    /\ prev = NoOutcome

Init == InitWith(Tables(MissingCellRows, MaxRows), {JITTER_LOW, JITTER_HIGH})

InitCost == InitWith(Tables(CostRows, 1), JITTER_LOW..JITTER_HIGH)

InitIds ==
    InitWith([1..MaxIdRows -> IdRows] \cup Tables(MissingCellRows, MaxRows), {JITTER_LOW})

---------------------------------------------------------------------------
(* The script, statement by statement *)

\* line 22
Sanitize ==
    /\ pc = "sanitize"
    /\ df' = SetColumn(df, "children", [i \in 1..NRows(df) |-> fillna0(df["children"][i])])
    /\ pc' = "map_month"
    /\ UNCHANGED <<csv, stream, rng, calls, frames, frame_i, files, failure, run, prev>>

\* line 30
MapMonth ==
    /\ pc = "map_month"
    /\ df' = SetColumn(df, "arrival_date_month",
                [i \in 1..NRows(df) |-> map_month(df["arrival_date_month"][i])])
    /\ pc' = "total_guests"
    /\ UNCHANGED <<csv, stream, rng, calls, frames, frame_i, files, failure, run, prev>>

\* line 32
TotalGuests ==
    /\ pc = "total_guests"
    /\ df' = SetColumn(df, "total_guests",
                [i \in 1..NRows(df) |->
                    Add(Add(df["adults"][i], df["children"][i]), df["babies"][i])])
    /\ pc' = "stay_duration"
    /\ UNCHANGED <<csv, stream, rng, calls, frames, frame_i, files, failure, run, prev>>

\* line 33
StayDuration ==
    /\ pc = "stay_duration"
    /\ df' = SetColumn(df, "stay_duration",
                [i \in 1..NRows(df) |->
                    Add(df["stays_in_weekend_nights"][i], df["stays_in_week_nights"][i])])
    /\ pc' = "booking_id"
    /\ UNCHANGED <<csv, stream, rng, calls, frames, frame_i, files, failure, run, prev>>

\* line 42
MakeBookingIds ==
    /\ pc = "booking_id"
    /\ df' = SetColumn(df, "booking_id", [i \in 1..NRows(df) |-> make_booking_id(df, i)])
    /\ pc' = "check_unique"
    /\ UNCHANGED <<csv, stream, rng, calls, frames, frame_i, files, failure, run, prev>>

\* line 44-45: the assertion aborts the run or lets it go on
CheckUnique ==
    /\ pc = "check_unique"
    /\ IF nunique(df["booking_id"]) = NRows(df)
       THEN pc' = "seed_rng" /\ failure' = failure
       ELSE pc' = "aborted" /\ failure' = "duplicate booking_ids"
    /\ UNCHANGED <<csv, stream, df, rng, calls, frames, frame_i, files, run, prev>>

\* line 65
SeedRng ==
    /\ pc = "seed_rng"
    /\ rng' = {default_rng(SEED)}
    /\ pc' = "simulate"
    /\ UNCHANGED <<csv, stream, df, calls, frames, frame_i, files, failure, run, prev>>

\* line 79, df.apply: one call per row, in row order
SimulateRow ==
    /\ pc = "simulate"
    /\ Len(calls) < NRows(df)
    /\ calls' = Append(calls, simulate_total_cost(df, Len(calls) + 1, uniform_value(Val(rng))))
    /\ rng' = {uniform_advance(Val(rng))}
    /\ UNCHANGED <<csv, stream, df, pc, frames, frame_i, files, failure, run, prev>>

\* line 79, the assignment of the applied results
AssignTotalCost ==
    /\ pc = "simulate"
    /\ Len(calls) = NRows(df)
    /\ df' = SetColumn(df, "total_cost", [i \in 1..NRows(df) |-> calls[i].ret])
    /\ pc' = "project"
    /\ UNCHANGED <<csv, stream, rng, calls, frames, frame_i, files, failure, run, prev>>

\* line 82-94
Project ==
    /\ pc = "project"
    /\ frames' = [n \in DOMAIN COLUMNS |-> project(df, COLUMNS[n])]
    /\ frame_i' = 1
    /\ pc' = "audit"
    /\ UNCHANGED <<csv, stream, df, rng, calls, files, failure, run, prev>>

\* line 102-105: one iteration of the audit loop
Audit ==
    /\ pc = "audit"
    /\ IF null_total(frames[FRAMES[frame_i]]) # 0
       THEN /\ pc' = "aborted"
            /\ failure' = FRAMES[frame_i]
            /\ frame_i' = frame_i
       ELSE /\ failure' = failure
            /\ IF frame_i < Len(FRAMES)
               THEN pc' = pc /\ frame_i' = frame_i + 1
               ELSE pc' = "export_core" /\ frame_i' = frame_i
    /\ UNCHANGED <<csv, stream, df, rng, calls, frames, files, run, prev>>

Write(file, frame, next) ==
    /\ files' = [files EXCEPT ![file] = {to_csv(frames[frame], COLUMNS[frame])}]
    /\ pc' = next
    /\ UNCHANGED <<csv, stream, df, rng, calls, frames, frame_i, failure, run, prev>>

\* line 108
ExportCore ==
    pc = "export_core" /\ Write("bookings_core.csv", "bookings_core", "export_arrival")

\* line 109
ExportArrival ==
    pc = "export_arrival" /\ Write("arrival_metadata.csv", "arrival_metadata", "export_financials")

\* line 110
ExportFinancials ==
    pc = "export_financials" /\ Write("booking_financials.csv", "booking_financials", "report")

\* line 112-116
Report ==
    /\ pc = "report"
    /\ pc' = "done"
    /\ UNCHANGED <<csv, stream, df, rng, calls, frames, frame_i, files, failure, run, prev>>

\* what a finished run leaves to compare the next run with
Outcome ==
    [pc |-> pc, failure |-> failure,
     booking_id |-> IF "booking_id" \in DOMAIN df THEN df["booking_id"] ELSE <<>>,
     total_cost |-> IF "total_cost" \in DOMAIN df THEN df["total_cost"] ELSE <<>>,
     files |-> files]

\* the script is started again on the same input file: a fresh process, the
\* output directory as the previous run left it
Rerun ==
    /\ pc \in {"done", "aborted"}
    /\ run < MaxRuns
    /\ run' = run + 1
    /\ prev' = Outcome
    /\ df' = read_csv(csv)
    /\ pc' = "sanitize"
    /\ rng' = NaN
    /\ calls' = <<>>
    /\ frames' = NoFrames
    /\ frame_i' = 0
    /\ failure' = "none"
    /\ UNCHANGED <<csv, stream, files>>

Next ==
    \/ Sanitize
    \/ MapMonth
    \/ TotalGuests
    \/ StayDuration
    \/ MakeBookingIds
    \/ CheckUnique
    \/ SeedRng
    \/ SimulateRow
    \/ AssignTotalCost
    \/ Project
    \/ Audit
    \/ ExportCore
    \/ ExportArrival
    \/ ExportFinancials
    \/ Report

NextRerun == Next \/ Rerun

\* one run over tables of the missing-cell family
Spec == Init /\ [][Next]_vars

\* one run over one-row tables of the cost family
SpecCost == InitCost /\ [][Next]_vars

\* one run over long tables of the identifier family and the tables of the
\* missing-cell family
SpecIds == InitIds /\ [][Next]_vars

\* repeated runs over the same input
SpecRerun == Init /\ [][NextRerun]_vars

---------------------------------------------------------------------------
(* Vocabulary of the properties, stated on the raw input and the outputs *)

Rows == 1..Len(csv)

Written == {f \in FILE_NAMES : files[f] # NaN}

HasColumn(c) == c \in DOMAIN df

FramesBuilt == DOMAIN frames # {}

\* the twelve month names in calendar order
Calendar ==
    <<"January", "February", "March", "April", "May", "June", "July",
      "August", "September", "October", "November", "December">>

KnownMonth(cell) == \E k \in DOMAIN Calendar : cell = {Calendar[k]}

IdsDistinct ==
    /\ HasColumn("booking_id")
    /\ \A i, j \in Rows : i # j => df["booking_id"][i] # df["booking_id"][j]

NullFree(n) ==
    /\ FramesBuilt
    /\ \A c \in DOMAIN frames[n] : \A i \in Rows : frames[n][c][i] # NaN

\* some cell the script reads and does not repair is missing, or a month
\* name is not one of the twelve
HasMissing ==
    \E i \in Rows :
        \/ \E c \in UNREPAIRED_COLUMNS : csv[i][c] = NaN
        \/ ~KnownMonth(csv[i]["arrival_date_month"])

SameTriple(i, j) ==
    /\ csv[i]["lead_time"] = csv[j]["lead_time"]
    /\ csv[i]["arrival_date_year"] = csv[j]["arrival_date_year"]
    /\ csv[i]["arrival_date_day_of_month"] = csv[j]["arrival_date_day_of_month"]

\* c is x / unit rounded to the nearest integer, ties to even
IsNearestEven(c, x, unit) ==
    /\ 2 * (c * unit - x) <= unit
    /\ 2 * (x - c * unit) <= unit
    /\ (2 * (c * unit - x) = unit \/ 2 * (x - c * unit) = unit) => c % 2 = 0

\* the total_cost cell of row i in the exported booking_financials.csv
ExportedCost(i) == Val(files["booking_financials.csv"]).rows[i][5]

---------------------------------------------------------------------------
(* C1: no partial export.  Whenever any output file exists, the booking   *)
(* ids are pairwise distinct and every one of the three projections is    *)
(* null-free; and a run that aborted has written none of the three files. *)
C1_NoPartialExport ==
    /\ Written # {} =>
          /\ IdsDistinct
          /\ NullFree("bookings_core")
          /\ NullFree("arrival_metadata")
          /\ NullFree("booking_financials")
    /\ pc = "aborted" => Written = {}

\* the audit of bookings_core passed, that of arrival_metadata failed, and
\* no file exists
C1_Witness ==
    /\ pc = "aborted"
    /\ failure = "arrival_metadata"
    /\ NullFree("bookings_core")
    /\ Written = {}

(* C2: identifier uniqueness.  Once the ids are derived, the ids of any   *)
(* two distinct rows differ, rows with the same (lead_time, year, day)    *)
(* included, and the run never aborts on the uniqueness assertion.        *)
C2_IdsUnique ==
    /\ HasColumn("booking_id") => IdsDistinct
    /\ failure # "duplicate booking_ids"

\* the assertion passed on a table where the rows at positions 1 and 11 have
\* lead times 12 and 2 (texts "1|12" and "11|2") and two rows share a triple
C2_Witness ==
    /\ pc = "seed_rng"
    /\ Len(csv) >= 12
    /\ csv[2]["lead_time"] = {12}
    /\ csv[12]["lead_time"] = {2}
    /\ \E i, j \in Rows : i # j /\ SameTriple(i, j)

C4_CancellationPricing ==
    /\ \A i \in 1..Len(calls) :
          LET X == calls[i].full_cost
          IN  IF csv[i]["is_canceled"] = {1}
              THEN /\ Cardinality(calls[i].ret) = Cardinality(X)
                   /\ \A c \in calls[i].ret : \A x \in X :
                          IsNearestEven(c, CANCEL_FEE * x, 100)
              ELSE calls[i].ret = X
    /\ HasColumn("total_cost") => \A i \in Rows : df["total_cost"][i] = calls[i].ret
    /\ "booking_financials.csv" \in Written =>
          \A i \in Rows : ExportedCost(i) = calls[i].ret

\* a cancelled record was exported with a fee that differs from its full cost
C4_Witness ==
    /\ pc = "done"
    /\ csv[1]["is_canceled"] = {1}
    /\ ExportedCost(1) # calls[1].full_cost
    /\ ExportedCost(1) # {0}

(* C5: minimum night billing.  The nights billed for a record are         *)
(* stay_duration when that is at least 1 and exactly 1 otherwise (zero    *)
(* weekend and zero week nights included), and the full cost is the       *)
(* nightly rate times the nights billed, rounded to the cent.             *)
C5_MinimumNights ==
    \A i \in 1..Len(calls) :
        \A we \in csv[i]["stays_in_weekend_nights"] :
        \A wk \in csv[i]["stays_in_week_nights"] :
            LET billed == IF we + wk >= 1 THEN we + wk ELSE 1
                nightly == base_rate(csv[i]["hotel"])
                              * season_mult(df["arrival_date_month"][i])
                              * calls[i].jitter
            IN  /\ calls[i].nights = {billed}
                /\ \E x \in calls[i].full_cost : IsNearestEven(x, nightly * billed, 100)

\* a record with zero weekend nights and zero week nights was billed one night
C5_Witness ==
    /\ pc = "project"
    /\ csv[1]["stays_in_weekend_nights"] = {0}
    /\ csv[1]["stays_in_week_nights"] = {0}
    /\ calls[1].nights = {1}

(* C6: total_cost is never negative, whatever the hotel type, the month,  *)
(* the jitter, the cancellation flag and the night counts (zero and       *)
(* negative night counts included).                                       *)
C6_CostNonNegative ==
    /\ \A i \in 1..Len(calls) : \A c \in calls[i].ret : c >= 0
    /\ HasColumn("total_cost") =>
          \A i \in Rows : \A c \in df["total_cost"][i] : c >= 0

\* a cost was computed for a cancelled record of an unlisted hotel type with a
\* negative stay_duration
C6_Witness ==
    /\ HasColumn("total_cost")
    /\ csv[1]["hotel"] = {"Hostel"}
    /\ csv[1]["is_canceled"] = {1}
    /\ df["stay_duration"][1] = {-1}
    /\ df["total_cost"][1] # NaN

(* C7: month mapping.  After the mapping step the month cell of a record  *)
(* whose month name is the k-th of the calendar is k, and the cell of any *)
(* other value is missing; the mapping step does not abort the run (a run *)
(* aborts only after the cost simulation).                                *)
C7_MonthMapping ==
    /\ pc \notin {"sanitize", "map_month"} =>
          \A i \in Rows :
              /\ \A k \in DOMAIN Calendar :
                    csv[i]["arrival_date_month"] = {Calendar[k]}
                        => df["arrival_date_month"][i] = {k}
              /\ ~KnownMonth(csv[i]["arrival_date_month"])
                    => df["arrival_date_month"][i] = NaN
    /\ pc = "aborted" => HasColumn("total_cost")

\* the step after the mapping is reached with an unrecognised name mapped to
\* a missing value
C7_Witness ==
    /\ pc = "total_guests"
    /\ csv[1]["arrival_date_month"] = {"Smarch"}
    /\ df["arrival_date_month"][1] = NaN

(* C8: sanitizer and sums.  After sanitization no children cell is        *)
(* missing: a missing count is 0 and a present count is unchanged.        *)
(* total_guests is adults + children + babies with a missing child count  *)
(* as 0, and stay_duration is weekend nights + week nights.               *)
C8_SanitizerAndSums ==
    /\ pc # "sanitize" =>
          \A i \in Rows :
              df["children"][i] =
                  (IF csv[i]["children"] = NaN THEN {0} ELSE csv[i]["children"])
    /\ HasColumn("total_guests") =>
          \A i \in Rows :
              \A a \in csv[i]["adults"] : \A b \in csv[i]["babies"] :
                  LET ch == IF csv[i]["children"] = NaN
                            THEN 0 ELSE Val(csv[i]["children"])
                  IN  df["total_guests"][i] = {a + ch + b}
    /\ HasColumn("stay_duration") =>
          \A i \in Rows :
              \A we \in csv[i]["stays_in_weekend_nights"] :
              \A wk \in csv[i]["stays_in_week_nights"] :
                  df["stay_duration"][i] = {we + wk}

\* both sums are derived for a record whose child count was missing
C8_Witness ==
    /\ HasColumn("stay_duration")
    /\ \E i \in Rows :
          /\ csv[i]["children"] = NaN
          /\ df["children"][i] = {0}
          /\ df["total_guests"][i] = {3}
          /\ df["stay_duration"][i] = {3}

(* C9: draw order.  The k-th call of the cost simulation is on the row at *)
(* position k-1 and uses the k-th value of the seeded stream; the         *)
(* generator has consumed exactly one value per call; no call is made     *)
(* before the uniqueness check has passed, and from the projection on     *)
(* every row has had its one draw and no further draw is made.            *)
C9_DrawOrder ==
    /\ \A k \in 1..Len(calls) :
          /\ calls[k].name = k - 1
          /\ calls[k].jitter = stream[k]
    /\ rng # NaN => rng = {Len(calls)}
    /\ rng = NaN => calls = <<>>
    /\ pc \in {"sanitize", "map_month", "total_guests", "stay_duration",
               "booking_id", "check_unique"} => rng = NaN
    /\ rng # NaN => IdsDistinct
    /\ pc \in {"project", "audit", "export_core", "export_arrival",
               "export_financials", "report", "done"} => rng = {Len(csv)}
    /\ (pc = "aborted" /\ rng # NaN) => rng = {Len(csv)}

\* a run is done whose two rows differ in hotel, month, duration and flag and
\* got the first and the second value of the stream, which differ
C9_Witness ==
    /\ pc = "done"
    /\ csv = <<CanceledRow, BaseRow>>
    /\ calls[1].jitter = stream[1]
    /\ calls[2].jitter = stream[2]
    /\ stream[1] # stream[2]

(* C10: a missing value never reaches export.  If some record has a       *)
(* missing cell in a consumed column other than children, or a month name *)
(* outside the twelve, then no file is ever written, the run never        *)
(* reaches the export, the projections once built hold a missing value,   *)
(* an abort is one of the null audit, and the run can only end aborted.   *)
C10_MissingCaughtByAudit ==
    HasMissing =>
        /\ Written = {}
        /\ pc \notin {"export_core", "export_arrival", "export_financials",
                      "report", "done"}
        /\ FramesBuilt =>
              \E n \in DOMAIN frames : ~NullFree(n)
        /\ pc = "aborted" => failure \in DOMAIN COLUMNS
        /\ ~ENABLED Next => pc = "aborted"

\* a record with an unrecognised month name was priced with the fallback
\* multiplier, and the run aborted at the audit of arrival_metadata
C10_Witness ==
    /\ pc = "aborted"
    /\ failure = "arrival_metadata"
    /\ Written = {}
    /\ \E i \in Rows :
          /\ csv[i]["arrival_date_month"] = {"Smarch"}
          /\ df["arrival_date_month"][i] = NaN
          /\ df["total_cost"][i] # NaN

============================================================================
